---- MODULE Spec2Model ----
(***************************************************************************)
(* Lifetime, ownership transfer and teardown synchronisation of imported   *)
(* external memory (src/driver/safe/external_memory.rs).                   *)
(*                                                                         *)
(* One OS resource (a File) is handed to import_external_memory; the model *)
(* follows it, the ExternalMemory built from it and the MappedBuffer built *)
(* from that, together with the work queues that read the mapping.         *)
(*                                                                         *)
(* Every driver primitive is fallible: its outcome is an input of the      *)
(* action that calls it.  `calls` is the sequence of primitive calls the   *)
(* wrapper has issued, in program order.                                   *)
(***************************************************************************)
EXTENDS Integers, Sequences, FiniteSets, TLC

\* ------------------------------------------------------------ bounds
MaxSize == 2          \* largest size handed to import
NarrowBits == 1       \* scaled width of usize on a narrow (32-bit) target
NQueues == 2          \* work queues of the context
MaxQueue == 1         \* reads in flight per queue
MaxGuards == 1        \* SyncOnDrop guards alive at a time

\* ------------------------------------------------------------ constants
WideBits == 30        \* scaled width of u64, and of usize on a 64-bit target
DefaultQueue == 1     \* the context's default stream

Queues == 1..NQueues

VARIABLES
    windows,       \* build: cfg(windows) (import keeps ownership with the caller)
    usizeBits,     \* build: width of usize
    importPrim,    \* outcome of the import primitive: "none" | "ok" | "failed"
    importResult,  \* "none" | "Ok" | "ErrBind" | "ErrImport"
    fileCloses,    \* how many times the File was closed by the wrapper
    emState,       \* ExternalMemory: "absent" | "owned" | "moved" | "dropped"
    emSize,        \* ExternalMemory.size
    mapVia,        \* "none" | "map_all" | "map_range"
    reqStart,      \* range.start given to map_range
    reqEnd,        \* range.end given to map_range
    mapPrim,       \* outcome of get_mapped_buffer: "none" | "ok" | "failed"
    mapResult,     \* "none" | "Ok" | "ErrMap" | "ErrEvent" | "panic"
    nViews,        \* MappedBuffers constructed from the ExternalMemory
    vState,        \* MappedBuffer: "absent" | "live" | "waiting" | "dropped"
    vLen,          \* MappedBuffer.len
    vPtr,          \* MappedBuffer.device_ptr (0: none)
    retPtr,        \* address last returned by device_ptr (0: none)
    devMem,        \* driver side of the mapping: "unmapped" | "mapped" | "freed"
    mapOffset,     \* offset given to get_mapped_buffer
    mapLen,        \* size given to get_mapped_buffer
    evt,           \* MappedBuffer.event: its most recent recording
    inflight,      \* per queue: reads of the mapping queued and not finished
    guards,        \* per queue: SyncOnDrop guards handed out and not yet resolved
    waitOk,        \* outcome of stream.wait in MappedBuffer::drop
    waited,        \* the wait of MappedBuffer::drop: queue it was issued on, queue of the recording it is for
    calls,         \* primitive calls issued so far
    failures,      \* teardown steps that failed
    errSink        \* errors recorded by ctx.record_err

vars == <<windows, usizeBits, importPrim, importResult, fileCloses, emState, emSize,
          mapVia, reqStart, reqEnd, mapPrim, mapResult, nViews, vState, vLen, vPtr, retPtr, devMem, mapOffset, mapLen,
          evt, inflight, guards, waitOk, waited, calls, failures, errSink>>

buildVars == <<windows, usizeBits>>
importVars == <<importPrim, importResult, emSize>>
mapVars == <<mapVia, reqStart, reqEnd, mapPrim, mapResult, nViews, vLen, vPtr, mapOffset, mapLen>>
queueVars == <<evt, inflight, guards>>
sinkVars == <<failures, errSink>>

\* ------------------------------------------------------------ helpers

\* `x as usize`
AsUsize(x) == x % (2 ^ usizeBits)

\* values a usize can take (within the sizes the model hands out)
UsizeVals == {x \in 0..(MaxSize + 1) : x < 2 ^ usizeBits}

\* mutant: the length is the wrapping difference end - start
RangeLen_Wrapping(start, end) == (end - start + 2 ^ usizeBits) % (2 ^ usizeBits)

\* Range<usize>::len()
RangeLen(start, end) == IF start <= end THEN end - start ELSE 0

\* an event that was never recorded
NoRecording == [recorded |-> FALSE, q |-> DefaultQueue, pending |-> 0]

\* no wait issued yet
NoWait == [on |-> 0, rec |-> 0]

\* the address get_mapped_buffer returns for a mapping at `offset`
DevAddr(offset) == offset + 1

\* ctx.record_err(result): the error, if any, goes to the context's sink
record_err(sink, ok) == IF ok THEN sink ELSE sink + 1

Count(ok) == IF ok THEN 0 ELSE 1

Sum(f) == LET S[D \in SUBSET DOMAIN f] ==
                 IF D = {} THEN 0
                 ELSE LET d == CHOOSE d \in D : TRUE IN f[d] + S[D \ {d}]
          IN S[DOMAIN f]

Occurrences(op) == Cardinality({i \in 1..Len(calls) : calls[i] = op})

Index(op) == IF Occurrences(op) = 0 THEN 0
             ELSE CHOOSE i \in 1..Len(calls) :
                      calls[i] = op /\ \A j \in 1..(i - 1) : calls[j] # op

\* ------------------------------------------------------------ Init

Init ==
    /\ windows \in BOOLEAN
    /\ usizeBits \in {NarrowBits, WideBits}
    /\ importPrim = "none"
    /\ importResult = "none"
    /\ fileCloses = 0
    /\ emState = "absent"
    /\ emSize = 0
    /\ mapVia = "none"
    /\ reqStart = 0
    /\ reqEnd = 0
    /\ mapPrim = "none"
    /\ mapResult = "none"
    /\ nViews = 0
    /\ vState = "absent"
    /\ vLen = 0
    /\ vPtr = 0
    /\ retPtr = 0
    /\ devMem = "unmapped"
    /\ mapOffset = 0
    /\ mapLen = 0
    /\ evt = NoRecording
    /\ inflight = [q \in Queues |-> 0]
    /\ guards = [q \in Queues |-> 0]
    /\ waitOk = TRUE
    /\ waited = NoWait
    /\ calls = <<>>
    /\ failures = 0
    /\ errSink = 0

\* ------------------------------------------------------------ import

\* mutant: the File is put in ManuallyDrop before the fallible calls
ImportCalls_LeakOnErr(bindOk, importOk) ==
    IF ~bindOk THEN <<"bind">>
    ELSE <<"bind", "import">>

\* The primitive calls of import_external_memory.  `file` is owned by the
\* function: on either early return it is dropped, which closes it; on success
\* it is wrapped in ManuallyDrop and not closed.
ImportCalls(bindOk, importOk) ==
    IF ~bindOk THEN <<"bind", "close">>
    ELSE IF ~importOk THEN <<"bind", "import", "close">>
    ELSE <<"bind", "import">>

\* mutant: the failure of the import primitive is not propagated
ImportOutcome_IgnoreImportErr(bindOk, importOk) ==
    IF ~bindOk THEN "ErrBind" ELSE "Ok"

ImportOutcome(bindOk, importOk) ==
    IF ~bindOk THEN "ErrBind"
    ELSE IF ~importOk THEN "ErrImport"
    ELSE "Ok"

\* issue primitive calls: they are appended in program order, and a "close"
\* closes the File
Issue(ops) ==
    /\ calls' = calls \o ops
    /\ fileCloses' = fileCloses + Cardinality({i \in 1..Len(ops) : ops[i] = "close"})

import_external_memory ==
    /\ importResult = "none"
    /\ \E size \in 0..MaxSize, bindOk \in BOOLEAN, importOk \in BOOLEAN :
          /\ Issue(ImportCalls(bindOk, importOk))
          /\ importPrim' = IF ~bindOk THEN "none" ELSE IF importOk THEN "ok" ELSE "failed"
          /\ importResult' = ImportOutcome(bindOk, importOk)
          /\ IF ImportOutcome(bindOk, importOk) = "Ok"
             THEN emState' = "owned" /\ emSize' = size
             ELSE UNCHANGED <<emState, emSize>>
    /\ UNCHANGED <<buildVars, mapVars, vState, retPtr, devMem, queueVars, waitOk, waited, sinkVars>>

\* ------------------------------------------------------------ ExternalMemory::drop

\* mutant: the destroy is left out of the teardown
ExternalMemoryDropCalls_NoDestroy ==
    <<"bind">> \o (IF windows THEN <<"close">> ELSE <<>>)

\* mutant: the File is dropped on every platform
ExternalMemoryDropCalls_CloseAlways ==
    <<"bind", "destroy", "close">>

\* mutant: the File is dropped before the handle is destroyed
ExternalMemoryDropCalls_CloseFirst ==
    <<"bind">> \o (IF windows THEN <<"close">> ELSE <<>>) \o <<"destroy">>

\* bind, destroy, and on windows the manual drop of the File
ExternalMemoryDropCalls ==
    <<"bind", "destroy">> \o (IF windows THEN <<"close">> ELSE <<>>)

\* mutant: the result of bind_to_thread is discarded instead of recorded
ExternalMemoryDrop_BindErrDropped(before, bindOk, destroyOk) ==
    /\ calls' = calls \o before \o ExternalMemoryDropCalls
    /\ fileCloses' = fileCloses + (IF windows THEN 1 ELSE 0)
    /\ emState' = "dropped"
    /\ failures' = failures + Count(bindOk) + Count(destroyOk)
    /\ errSink' = record_err(errSink, destroyOk)

\* the whole of ExternalMemory::drop after the calls `before` of the same handler
ExternalMemoryDrop(before, bindOk, destroyOk) ==
    /\ Issue(before \o ExternalMemoryDropCalls)
    /\ emState' = "dropped"
    /\ failures' = failures + Count(bindOk) + Count(destroyOk)
    /\ errSink' = record_err(record_err(errSink, bindOk), destroyOk)

\* an ExternalMemory that was never mapped goes out of scope
drop_ExternalMemory ==
    /\ emState = "owned"
    /\ \E bindOk \in BOOLEAN, destroyOk \in BOOLEAN :
          ExternalMemoryDrop(<<>>, bindOk, destroyOk)
    /\ UNCHANGED <<buildVars, importVars, mapVars, vState, retPtr, devMem, queueVars, waitOk, waited>>

\* ------------------------------------------------------------ map_range, map_all

\* `x as u64`
AsU64(x) == x % (2 ^ WideBits)

\* mutant: only the start of the range is asserted
RangeOk_StartOnly(start, end) == AsU64(start) <= emSize

\* the two assertions of map_range
RangeOk(start, end) == AsU64(start) <= emSize /\ AsU64(end) <= emSize

\* mutant: the failure of get_mapped_buffer is not propagated
MapOutcome_IgnoreMapErr(start, end, mapOk, evOk) ==
    IF ~RangeOk(start, end) THEN "panic"
    ELSE IF ~evOk THEN "ErrEvent"
    ELSE "Ok"

MapOutcome(start, end, mapOk, evOk) ==
    IF ~RangeOk(start, end) THEN "panic"
    ELSE IF ~mapOk THEN "ErrMap"
    ELSE IF ~evOk THEN "ErrEvent"
    ELSE "Ok"

\* the primitive calls of map_range itself, by outcome
MapCalls(res) ==
    CASE res = "panic" -> <<>>
      [] res = "ErrMap" -> <<"get_mapped_buffer">>
      [] OTHER -> <<"get_mapped_buffer", "new_event">>

\* mutant: map_range borrows the handle instead of consuming it
HandleAfterMap_Borrowed == "owned"

\* `external_memory: self`: the handle is moved into the view
HandleAfterMap == "moved"

\* map_range(self, start..end).  On every outcome but Ok, `self` is dropped as
\* the function returns or unwinds, which runs ExternalMemory::drop.
MapRange(via, start, end) ==
    /\ emState = "owned"
    /\ \E mapOk \in BOOLEAN, evOk \in BOOLEAN, bindOk \in BOOLEAN, destroyOk \in BOOLEAN :
          LET res == MapOutcome(start, end, mapOk, evOk) IN
          /\ mapVia' = via
          /\ reqStart' = start
          /\ reqEnd' = end
          /\ mapPrim' = IF ~RangeOk(start, end) THEN "none" ELSE IF mapOk THEN "ok" ELSE "failed"
          /\ mapResult' = res
          /\ IF res \in {"Ok", "ErrEvent"}
             THEN /\ devMem' = "mapped"
                  /\ mapOffset' = AsU64(start)
                  /\ mapLen' = AsU64(RangeLen(start, end))
             ELSE UNCHANGED <<devMem, mapOffset, mapLen>>
          /\ IF res = "Ok"
             THEN /\ Issue(MapCalls(res))
                  /\ emState' = HandleAfterMap
                  /\ vState' = "live"
                  /\ vLen' = RangeLen(start, end)
                  /\ vPtr' = DevAddr(AsU64(start))
                  /\ nViews' = nViews + 1
                  /\ UNCHANGED sinkVars
             ELSE /\ ExternalMemoryDrop(MapCalls(res), bindOk, destroyOk)
                  /\ UNCHANGED <<vState, vLen, vPtr, nViews>>
    /\ UNCHANGED <<buildVars, importVars, retPtr, queueVars, waitOk, waited>>

map_range ==
    \E start \in UsizeVals, end \in UsizeVals : MapRange("map_range", start, end)

map_all ==
    LET size == AsUsize(emSize) IN MapRange("map_all", 0, size)

\* ------------------------------------------------------------ read access

\* mutant: the read access synchronises at access time
device_ptr_SyncAtAccess(q) ==
    /\ vState = "live"
    /\ Sum(guards) < MaxGuards
    /\ guards' = [guards EXCEPT ![q] = @ + 1]
    /\ retPtr' = vPtr
    /\ calls' = calls \o <<"wait">>
    /\ UNCHANGED <<buildVars, importVars, fileCloses, emState, mapVars, vState, devMem,
                   evt, inflight, waitOk, waited, sinkVars>>

\* device_ptr(&self, stream): hands out the address with a SyncOnDrop::Record
\* guard for (event, stream); nothing is issued and no field changes
device_ptr(q) ==
    /\ vState = "live"
    /\ Sum(guards) < MaxGuards
    /\ guards' = [guards EXCEPT ![q] = @ + 1]
    /\ retPtr' = vPtr
    /\ UNCHANGED <<buildVars, importVars, fileCloses, emState, mapVars, vState, devMem,
                   evt, inflight, waitOk, waited, calls, sinkVars>>

\* the holder of a guard for queue q queues a read of the mapping on q
LaunchRead(q) ==
    /\ vState = "live"
    /\ guards[q] > 0
    /\ inflight[q] < MaxQueue
    /\ inflight' = [inflight EXCEPT ![q] = @ + 1]
    /\ UNCHANGED <<buildVars, importVars, fileCloses, emState, mapVars, vState, retPtr, devMem,
                   evt, guards, waitOk, waited, calls, sinkVars>>

\* the guard is resolved: the event is recorded on q, replacing its previous
\* recording; it completes when the work now queued on q has finished
SyncOnDrop_drop(q) ==
    /\ guards[q] > 0
    /\ guards' = [guards EXCEPT ![q] = @ - 1]
    /\ evt' = [recorded |-> TRUE, q |-> q, pending |-> inflight[q]]
    /\ UNCHANGED <<buildVars, importVars, fileCloses, emState, mapVars, vState, retPtr, devMem,
                   inflight, waitOk, waited, calls, sinkVars>>

\* the device finishes the oldest read queued on q
ReadFinish(q) ==
    /\ inflight[q] > 0
    /\ inflight' = [inflight EXCEPT ![q] = @ - 1]
    /\ evt' = IF evt.recorded /\ evt.q = q /\ evt.pending > 0
              THEN [evt EXCEPT !.pending = @ - 1]
              ELSE evt
    /\ UNCHANGED <<buildVars, importVars, fileCloses, emState, mapVars, vState, retPtr, devMem,
                   guards, waitOk, waited, calls, sinkVars>>

\* ------------------------------------------------------------ MappedBuffer::drop

\* mutant: the wait is skipped when the thread binding failed
MappedBufferDropSync_SkipOnBindErr(bindOk) ==
    IF bindOk THEN <<"bind", "wait">> ELSE <<"bind">>

\* the calls of MappedBuffer::drop up to and including the wait
MappedBufferDropSync(bindOk) == <<"bind", "wait">>

\* self.stream: the queue chosen by map_range, the context's default stream
ViewStream == DefaultQueue

\* mutant: the wait is given a fresh event instead of the view's
WaitTarget_Fresh == NoRecording

\* &self.event: the event the wait of MappedBuffer::drop is given
WaitTarget == evt

\* mutant: a guard does not borrow the view
Borrowed_Never == FALSE

\* device_ptr<'a>(&'a self, ..) -> (.., SyncOnDrop<'a>): a guard alive borrows the view
Borrowed == \E q \in Queues : guards[q] > 0

\* mutant: a wait on an event never recorded is never satisfied
WaitSatisfied_NeedsRecording == ~waitOk \/ (evt.recorded /\ evt.pending = 0)

\* stream.wait(&event): satisfied once the event's most recent recording has
\* completed; an event never recorded is complete; a wait that failed waits
\* for nothing
WaitSatisfied == ~waitOk \/ evt.pending = 0

\* MappedBuffer::drop, first part: bind and wait.  The view is borrowed by
\* every guard it handed out, so it is dropped only when none is alive.
drop_MappedBuffer_wait ==
    /\ vState = "live"
    /\ ~Borrowed
    /\ \E bindOk \in BOOLEAN, wOk \in BOOLEAN :
          /\ Issue(MappedBufferDropSync(bindOk))
          /\ waitOk' = wOk
          /\ waited' = [on |-> ViewStream,
                        rec |-> IF WaitTarget.recorded THEN WaitTarget.q ELSE 0]
          /\ failures' = failures + Count(bindOk) + Count(wOk)
          /\ errSink' = record_err(record_err(errSink, bindOk), wOk)
    /\ vState' = "waiting"
    /\ UNCHANGED <<buildVars, importVars, emState, mapVars, retPtr, devMem, queueVars>>

\* mutant: the mapping is freed twice
MappedBufferDropFreeCalls_Twice == <<"memory_free", "memory_free">>

\* the free of MappedBuffer::drop
MappedBufferDropFreeCalls == <<"memory_free">>

\* mutant: the field external_memory is dropped before the view's own free
MappedBufferDropTail_HandleFirst == ExternalMemoryDropCalls \o MappedBufferDropFreeCalls

\* the free, then the drop glue of the field external_memory
MappedBufferDropTail == MappedBufferDropFreeCalls \o ExternalMemoryDropCalls

\* MappedBuffer::drop, second part: the free, then the drop of the field
\* external_memory
drop_MappedBuffer_free ==
    /\ vState = "waiting"
    /\ WaitSatisfied
    /\ \E freeOk \in BOOLEAN, bindOk \in BOOLEAN, destroyOk \in BOOLEAN :
          /\ Issue(MappedBufferDropTail)
          /\ emState' = "dropped"
          /\ devMem' = IF freeOk THEN "freed" ELSE devMem
          /\ failures' = failures + Count(freeOk) + Count(bindOk) + Count(destroyOk)
          /\ errSink' = record_err(record_err(record_err(errSink, freeOk), bindOk), destroyOk)
    /\ vState' = "dropped"
    /\ UNCHANGED <<buildVars, importVars, mapVars, retPtr, queueVars, waitOk, waited>>

\* ------------------------------------------------------------ specification

Next ==
    \/ import_external_memory
    \/ drop_ExternalMemory
    \/ map_range
    \/ map_all
    \/ \E q \in Queues : device_ptr(q)
    \/ \E q \in Queues : LaunchRead(q)
    \/ \E q \in Queues : SyncOnDrop_drop(q)
    \/ \E q \in Queues : ReadFinish(q)
    \/ drop_MappedBuffer_wait
    \/ drop_MappedBuffer_free

Spec == Init /\ [][Next]_vars

\* The device runs every queued read to its end, and the thread that entered
\* MappedBuffer::drop goes on once its wait lets it.
SpecFair ==
    /\ Spec
    /\ \A q \in Queues : WF_vars(ReadFinish(q))
    /\ WF_vars(drop_MappedBuffer_free)

\* ------------------------------------------------------------ claims

Issued(op) == Occurrences(op) > 0

ReadInFlight == \E q \in Queues : inflight[q] > 0

\* C1: the mapped device memory is never freed while a read that recorded the
\* completion marker is still in flight on some queue.  Stated for the
\* teardowns whose wait succeeded: a violation then shows the wait itself
\* letting the free through, not a driver failure.
C1_NoFreeWhileReadInFlight ==
    (devMem = "freed" /\ waitOk) => ~ReadInFlight

\* C2: every free of the mapping is preceded in program order by a wait
\* attempt, and a view that has left scope went through both, whatever the
\* outcome of the bind and of the wait.
C2_WaitBeforeFree ==
    /\ \A i \in 1..Len(calls) :
          calls[i] = "memory_free" => \E j \in 1..(i - 1) : calls[j] = "wait"
    /\ vState = "dropped" => Issued("wait") /\ Issued("memory_free")

\* a view torn down after its wait failed
C2_Witness ==
    vState = "dropped" /\ ~waitOk /\ Issued("memory_free")

\* C3: the handle of a successful import is destroyed exactly once: not before
\* its owner goes away, once when it is dropped unmapped, torn down with its
\* view, or consumed by a map that fails or panics; never twice; and no
\* destroy is issued when import did not succeed.
C3_DestroyedExactlyOnce ==
    /\ Occurrences("destroy") <= 1
    /\ importResult # "Ok" => Occurrences("destroy") = 0
    /\ emState \in {"owned", "moved"} /\ vState # "dropped" => Occurrences("destroy") = 0
    /\ emState = "dropped" => Occurrences("destroy") = 1
    /\ vState = "dropped" => Occurrences("destroy") = 1
    /\ mapResult \in {"ErrMap", "ErrEvent", "panic"} => Occurrences("destroy") = 1

\* a handle consumed by a map_range that panicked, destroyed by the unwinding
C3_Witness ==
    mapResult = "panic" /\ emState = "dropped" /\ Occurrences("destroy") = 1

\* C4 as stated: where import transfers ownership (not windows), the wrapper
\* never closes the File, on any path through import, map and teardown.
C4_NeverClosed ==
    ~windows => fileCloses = 0

\* C4 amended: where import transfers ownership, the File of a successful
\* import is never closed by the wrapper; a failed import, which transferred
\* nothing, closes it once as it returns.
C4_NeverClosedAfterImport ==
    ~windows =>
        /\ importResult = "Ok" => fileCloses = 0 /\ ~Issued("close")
        /\ importResult \in {"ErrBind", "ErrImport"} => fileCloses = 1

\* an imported, mapped and torn down handle on the ownership-transferring platform
C4_Witness ==
    ~windows /\ importResult = "Ok" /\ vState = "dropped" /\ emState = "dropped"

\* C5: where import does not transfer ownership (windows), the File of an
\* imported handle is closed exactly once, by the handle's teardown and after
\* the destroy; it stays open while the handle is alive, also inside a view;
\* and it is never closed twice.
C5_ClosedOnceAfterDestroy ==
    windows =>
        /\ fileCloses <= 1
        /\ importResult = "Ok" /\ emState \in {"owned", "moved"} /\ vState # "dropped"
              => fileCloses = 0
        /\ importResult = "Ok" /\ (emState = "dropped" \/ vState = "dropped")
              => /\ fileCloses = 1
                 /\ Occurrences("close") = 1
                 /\ 0 < Index("destroy")
                 /\ Index("destroy") < Index("close")

\* a handle torn down inside its view on windows
C5_Witness ==
    windows /\ vState = "dropped" /\ fileCloses = 1

\* C6: at most one MappedBuffer is ever built from an ExternalMemory, and
\* after any map attempt (successful, failed or panicked) the handle is no
\* longer there to be mapped.
C6_AtMostOneView ==
    /\ nViews <= 1
    /\ mapVia # "none" => emState # "owned"
    /\ vState \in {"live", "waiting"} => emState = "moved"

\* a live view holding its handle
C6_Witness ==
    nViews = 1 /\ vState = "live" /\ emState = "moved"

\* C7: a range with start > size or end > size makes map_range panic: no
\* result is returned, get_mapped_buffer is not called, no view is built.
C7_OutOfRangePanics ==
    (mapVia # "none" /\ (reqStart > emSize \/ reqEnd > emSize)) =>
        /\ mapResult = "panic"
        /\ mapPrim = "none"
        /\ ~Issued("get_mapped_buffer")
        /\ vState = "absent"
        /\ nViews = 0
        /\ devMem = "unmapped"

\* a range whose start is in bounds and whose end is not
C7_Witness ==
    mapVia = "map_range" /\ reqStart <= emSize /\ reqEnd > emSize /\ mapResult = "panic"

\* C8: map_all on a handle of size `size` requests the mapping at offset 0
\* with length size, as map_range(0..size) does, and its view has len = size.
C8_MapAllIsWholeRange ==
    (mapVia = "map_all" /\ mapResult = "Ok") =>
        /\ reqStart = 0
        /\ reqEnd = emSize
        /\ mapOffset = 0
        /\ mapLen = emSize
        /\ vLen = emSize

\* C9: when the import primitive fails, import returns that failure, no
\* ExternalMemory is built, and neither destroy nor any later step is reached.
C9_ImportFailure ==
    importPrim = "failed" =>
        /\ importResult = "ErrImport"
        /\ emState = "absent"
        /\ ~Issued("destroy")
        /\ mapVia = "none"
        /\ vState = "absent"
        /\ calls = <<"bind", "import", "close">>

\* the import primitive failed
C9_Witness ==
    importPrim = "failed" /\ importResult = "ErrImport"

\* C10: when get_mapped_buffer fails, map returns the failure, no view is
\* built, neither wait nor free is issued, and the consumed handle runs its
\* teardown: bind, destroy once, and the close on windows only.
C10_MapFailure ==
    mapPrim = "failed" =>
        /\ mapResult = "ErrMap"
        /\ vState = "absent"
        /\ nViews = 0
        /\ devMem = "unmapped"
        /\ ~Issued("wait")
        /\ ~Issued("memory_free")
        /\ ~Issued("new_event")
        /\ emState = "dropped"
        /\ calls = <<"bind", "import", "get_mapped_buffer", "bind", "destroy">>
                     \o (IF windows THEN <<"close">> ELSE <<>>)
        /\ fileCloses = IF windows THEN 1 ELSE 0

\* get_mapped_buffer failed inside map_all
C10_Witness ==
    mapPrim = "failed" /\ mapVia = "map_all" /\ emState = "dropped"

EndsWith(ops) ==
    /\ Len(calls) >= Len(ops)
    /\ SubSeq(calls, Len(calls) - Len(ops) + 1, Len(calls)) = ops

CloseOnWindows == IF windows THEN <<"close">> ELSE <<>>

TearingDown == vState \in {"waiting", "dropped"}

\* the scenario of C11: import, map_all, a read that recorded the marker, drop
C11_Scenario ==
    /\ importResult = "Ok"
    /\ mapVia = "map_all"
    /\ mapResult = "Ok"
    /\ evt.recorded
    /\ vState = "dropped"

\* C11 as stated: after import, map_all, a read recording the marker on queue
\* Q and the drop of the view, the wait was issued on Q before the free, the
\* free once, the destroy once, and the File not closed twice.
C11_WaitOnReadQueue ==
    C11_Scenario =>
        /\ waited.on = evt.q
        /\ 0 < Index("wait") /\ Index("wait") < Index("memory_free")
        /\ Occurrences("memory_free") = 1
        /\ Occurrences("destroy") = 1
        /\ fileCloses <= 1

\* C11 amended: the wait is issued on the view's own queue (the context's
\* default stream), for the marker as recorded on Q, before the free; the free
\* once, the destroy once, and the File not closed twice.
C11_WaitOnViewQueue ==
    C11_Scenario =>
        /\ waited.on = DefaultQueue
        /\ waited.rec = evt.q
        /\ 0 < Index("wait") /\ Index("wait") < Index("memory_free")
        /\ Occurrences("wait") = 1
        /\ Occurrences("memory_free") = 1
        /\ Occurrences("destroy") = 1
        /\ fileCloses <= 1

\* the scenario with the read on a queue other than the default stream
C11_Witness ==
    C11_Scenario /\ evt.q # DefaultQueue

\* C12: every failed teardown step is recorded in the context's sink, and the
\* steps after a failed one are still issued: a torn down view has issued
\* bind, wait, free, bind, destroy (and the close on windows) whatever failed.
C12_TeardownBestEffort ==
    /\ errSink = failures
    /\ vState = "waiting" => EndsWith(<<"bind", "wait">>)
    /\ vState = "dropped" =>
          EndsWith(<<"bind", "wait", "memory_free", "bind", "destroy">> \o CloseOnWindows)
    /\ emState = "dropped" => EndsWith(<<"bind", "destroy">> \o CloseOnWindows)

\* a view torn down with every step failing
C12_Witness ==
    vState = "dropped" /\ failures = 5 /\ errSink = 5

\* C13: the view's bind, wait and free all precede the teardown of the handle
\* nested in it; the handle is neither destroyed nor its File closed while
\* the view is alive, and the mapping is freed before the handle is destroyed.
C13_StrictCascade ==
    /\ vState \in {"live", "waiting"} => ~Issued("destroy") /\ ~Issued("memory_free")
    /\ vState = "dropped" =>
          /\ EndsWith(<<"bind", "wait", "memory_free", "bind", "destroy">> \o CloseOnWindows)
          /\ Index("wait") < Index("memory_free")
          /\ Index("memory_free") < Index("destroy")
    /\ Issued("memory_free") => Issued("destroy") /\ Index("memory_free") < Index("destroy")

\* a view torn down on windows: the close comes last
C13_Witness ==
    vState = "dropped" /\ windows /\ EndsWith(<<"memory_free", "bind", "destroy", "close">>)

ViewFrame ==
    UNCHANGED <<vPtr, vLen, vState, emState, emSize, devMem, mapOffset, mapLen,
                fileCloses, waitOk, waited, failures, errSink>>

\* C14: a read access (a guard is handed out) issues no primitive call, changes
\* no field of the view and records nothing: it returns the view's device
\* address with one more guard; resolving a guard (one guard fewer) records
\* the event on the guard's queue and does nothing else.
C14_ReadAccessFrame ==
    [][ /\ Sum(guards') > Sum(guards) =>
              /\ calls' = calls
              /\ retPtr' = vPtr
              /\ evt' = evt
              /\ inflight' = inflight
              /\ ViewFrame
              /\ \E q \in Queues : guards' = [guards EXCEPT ![q] = @ + 1]
        /\ Sum(guards') < Sum(guards) =>
              /\ calls' = calls
              /\ inflight' = inflight
              /\ ViewFrame
              /\ \E q \in Queues :
                    /\ guards' = [guards EXCEPT ![q] = @ - 1]
                    /\ evt' = [recorded |-> TRUE, q |-> q, pending |-> inflight[q]]
      ]_vars

\* a guard handed out for a mapping at a non-zero offset
C14_Witness ==
    vState = "live" /\ Sum(guards) > 0 /\ retPtr = vPtr /\ mapOffset > 0

\* C15: the wait of the teardown is issued on the view's own queue, the
\* default stream, and is for the event's most recent recording, whichever
\* queue made it; for an event never recorded it is for none.
C15_WaitObservesLastRecording ==
    TearingDown =>
        /\ waited.on = DefaultQueue
        /\ waited.rec = IF evt.recorded THEN evt.q ELSE 0

\* the teardown waits for a recording made on another queue after a read was
\* queued on the default stream
C15_Witness ==
    /\ vState = "waiting"
    /\ waited.rec # 0
    /\ waited.rec # DefaultQueue
    /\ inflight[DefaultQueue] > 0

\* C16: a view has offset = range.start, len = the length requested from
\* get_mapped_buffer, and offset + len <= size; a range with start > end is
\* accepted with len 0.
C16_ViewWithinHandle ==
    mapResult = "Ok" =>
        /\ mapOffset = reqStart
        /\ mapLen = vLen
        /\ mapOffset + mapLen <= emSize
        /\ reqStart <= reqEnd => vLen = reqEnd - reqStart
        /\ reqStart > reqEnd => vLen = 0

\* a view of a range with start > end
C16_Witness ==
    mapResult = "Ok" /\ reqStart > reqEnd /\ vState = "live"

\* C17: a mapping returned by get_mapped_buffer is freed exactly once and
\* before its handle is destroyed, on every path out of map.
C17_MappingFreedOnce ==
    (mapPrim = "ok" /\ emState = "dropped") =>
        /\ Occurrences("memory_free") = 1
        /\ Index("memory_free") < Index("destroy")

\* C18: once the teardown of the view has begun no guard is alive and the
\* event is not recorded again: its recording only completes.
C18_NoRecordingAfterTeardown ==
    [][ TearingDown =>
            /\ \A q \in Queues : guards[q] = 0 /\ guards'[q] = 0
            /\ evt'.recorded = evt.recorded
            /\ evt'.q = evt.q
            /\ evt'.pending <= evt.pending
      ]_vars

\* a view torn down after its event was recorded
C18_Witness ==
    vState = "dropped" /\ evt.recorded /\ retPtr # 0

\* C19: a teardown that has begun completes: the free and the destroy of the
\* nested handle are issued, also when the event was never recorded.
C19_TeardownCompletes ==
    (vState = "waiting") ~>
        (vState = "dropped" /\ Issued("memory_free") /\ Issued("destroy"))

\* a teardown completed after a successful wait on an event never recorded
C19_Witness ==
    vState = "dropped" /\ ~evt.recorded /\ waitOk /\ Issued("destroy")

\* C20: when import fails, at the bind (the import primitive is then not
\* called) or at the import primitive, no handle is built and the File is
\* closed exactly once, on both platforms.
C20_FailedImportClosesFile ==
    /\ importResult = "ErrBind" =>
          /\ calls = <<"bind", "close">>
          /\ importPrim = "none"
    /\ importResult = "ErrImport" => calls = <<"bind", "import", "close">>
    /\ importResult \in {"ErrBind", "ErrImport"} =>
          /\ fileCloses = 1
          /\ emState = "absent"

\* import failed at the bind on the ownership-transferring platform
C20_Witness ==
    importResult = "ErrBind" /\ ~windows /\ fileCloses = 1

====
